---- MODULE Spec2Model ----
(***************************************************************************)
(* pub: read JSON lines from stdin, evaluate the URL / transform / header  *)
(* expressions against each record and send one HTTP request per record.   *)
(*                                                                         *)
(* Text is modelled as a sequence of chunks (TLA+ strings): " " is a       *)
(* whitespace chunk, ":" a colon, every other chunk a run of ordinary      *)
(* characters.  An input line and a request body are sequences of JSON     *)
(* tokens, with " " the insignificant whitespace between tokens.           *)
(***************************************************************************)
EXTENDS Integers, Sequences, FiniteSets, TLC

\* Longest input stream read from stdin, in lines.
MaxLines == 2
\* Largest number of --header flags on the command line.
MaxHeaders == 2

----------------------------------------------------------------------------
(* strings *)

RECURSIVE TrimLeft(_)
TrimLeft(s) == IF s # <<>> /\ Head(s) = " " THEN TrimLeft(Tail(s)) ELSE s

RECURSIVE TrimRight(_)
TrimRight(s) ==
    IF s # <<>> /\ s[Len(s)] = " " THEN TrimRight(SubSeq(s, 1, Len(s) - 1)) ELSE s

\* a blank test that compares the line as it is
TrimSpaceNone(s) == s

\* strings.TrimSpace
TrimSpace(s) == TrimRight(TrimLeft(s))

\* index of the first chunk of s equal to c, 0 when there is none
IndexOf(s, c) ==
    IF \E i \in 1..Len(s) : s[i] = c
    THEN CHOOSE i \in 1..Len(s) : s[i] = c /\ \A j \in 1..(i - 1) : s[j] # c
    ELSE 0

\* a split that pads a string without the separator to two parts
SplitN2Padded(s, sep) ==
    LET i == IndexOf(s, sep)
    IN IF i = 0 THEN <<s, <<>>>> ELSE <<SubSeq(s, 1, i - 1), SubSeq(s, i + 1, Len(s))>>

\* a split at the last separator of the string
SplitAtLast(s, sep) ==
    LET at == {i \in 1..Len(s) : s[i] = sep}
        i == IF at = {} THEN 0 ELSE CHOOSE j \in at : \A k \in at : k <= j
    IN IF i = 0 THEN <<s>> ELSE <<SubSeq(s, 1, i - 1), SubSeq(s, i + 1, Len(s))>>

\* strings.SplitN(s, sep, 2)
SplitN2(s, sep) ==
    LET i == IndexOf(s, sep)
    IN IF i = 0 THEN <<s>> ELSE <<SubSeq(s, 1, i - 1), SubSeq(s, i + 1, Len(s))>>

----------------------------------------------------------------------------
(* JSON values: t is the dynamic type, s the text of a scalar, m the map   *)
(* of an object (a function from its keys to values)                       *)

EmptyMap == [k \in {} |-> 0]

Nil == [t |-> "nil", s |-> <<>>, m |-> EmptyMap]
Str(s) == [t |-> "str", s |-> s, m |-> EmptyMap]
Num(n) == [t |-> "num", s |-> <<n>>, m |-> EmptyMap]
Inf == [t |-> "inf", s |-> <<>>, m |-> EmptyMap]
Obj(m) == [t |-> "obj", s |-> <<>>, m |-> m]

\* the JSON string tokens of the input alphabet and the strings they denote
Quoted == [tok \in {"\"u\"", "\"v\"", "\"queue\"", "\"id\"", "\"data\""} |->
            CASE tok = "\"u\"" -> "u"
              [] tok = "\"v\"" -> "v"
              [] tok = "\"queue\"" -> "queue"
              [] tok = "\"id\"" -> "id"
              [] tok = "\"data\"" -> "data"]

StringToks == DOMAIN Quoted

Quote(c) == CHOOSE tok \in StringToks : Quoted[tok] = c

\* number tokens: the decoder reads a float64, the encoder writes its shortest form
NumberToks == {"1", "1.0"}
ParseFloat(tok) == "1"

ScalarToks == StringToks \cup NumberToks \cup {"null"}

ScalarValue(tok) ==
    IF tok \in StringToks THEN Str(<<Quoted[tok]>>)
    ELSE IF tok \in NumberToks THEN Num(ParseFloat(tok))
    ELSE Nil

\* the object keys in the byte order json.Marshal sorts them in
KeyOrder == <<"data", "id", "queue">>

\* the tokens of a line with the whitespace between them dropped
Significant(line) == SelectSeq(line, LAMBDA t : t # " ")

\* inner is the token list between the braces: key : value , key : value ...
WellFormedMembers(inner) ==
    \/ inner = <<>>
    \/ /\ Len(inner) % 4 = 3
       /\ \A i \in 1..Len(inner) :
            CASE i % 4 = 1 -> inner[i] \in StringToks
              [] i % 4 = 2 -> inner[i] = ":"
              [] i % 4 = 3 -> inner[i] \in ScalarToks
              [] OTHER -> inner[i] = ","

\* the value of key k is that of its last member
MembersMap(inner) ==
    LET n == (Len(inner) + 1) \div 4
        keyAt(j) == Quoted[inner[4 * j - 3]]
        keys == {keyAt(j) : j \in 1..n}
        last(k) == CHOOSE j \in 1..n :
                      keyAt(j) = k /\ \A j2 \in (j + 1)..n : keyAt(j2) # k
    IN [k \in keys |-> ScalarValue(inner[4 * last(k) - 1])]

\* json.Unmarshal into interface{}
Unmarshal(line) ==
    LET toks == Significant(line)
        n == Len(toks)
    IN IF n = 1 /\ toks[1] \in ScalarToks
       THEN [ok |-> TRUE, val |-> ScalarValue(toks[1])]
       ELSE IF n >= 2 /\ toks[1] = "{" /\ toks[n] = "}"
               /\ WellFormedMembers(SubSeq(toks, 2, n - 1))
       THEN [ok |-> TRUE, val |-> Obj(MembersMap(SubSeq(toks, 2, n - 1)))]
       ELSE [ok |-> FALSE, val |-> Nil]

RECURSIVE Marshal(_)
RECURSIVE MarshalMembers(_, _, _)

\* the members of map m for the keys KeyOrder[i..], comma-separated
MarshalMembers(m, i, first) ==
    IF i > Len(KeyOrder) THEN <<>>
    ELSE IF KeyOrder[i] \notin DOMAIN m THEN MarshalMembers(m, i + 1, first)
    ELSE (IF first THEN <<>> ELSE <<",">>)
         \o <<Quote(KeyOrder[i]), ":">> \o Marshal(m[KeyOrder[i]]).bytes
         \o MarshalMembers(m, i + 1, FALSE)

\* json.Marshal: no whitespace, keys sorted; +Inf has no JSON encoding
Marshal(v) ==
    CASE v.t = "inf" -> [ok |-> FALSE, bytes |-> <<>>]
      [] v.t = "nil" -> [ok |-> TRUE, bytes |-> <<"null">>]
      [] v.t = "num" -> [ok |-> TRUE, bytes |-> v.s]
      [] v.t = "str" -> [ok |-> TRUE, bytes |-> <<Quote(v.s[1])>>]
      [] OTHER ->
            IF \E k \in DOMAIN v.m : ~Marshal(v.m[k]).ok
            THEN [ok |-> FALSE, bytes |-> <<>>]
            ELSE [ok |-> TRUE,
                  bytes |-> <<"{">> \o MarshalMembers(v.m, 1, TRUE) \o <<"}">>]

----------------------------------------------------------------------------
(* expressions (github.com/expr-lang/expr), by their source text *)

U_LIT == "\"http://h/p\""
U_QUEUE == "\"http://h/p?queue=\" + input.queue"
U_ESCAPE == "\"%zz\""
U_ENV == "env.API_ENDPOINT"

T_WRAP == "{data: input}"
T_FIELD == "{data: input.queue}"
T_INF == "1 / 0"

H_CT == "\"Content-Type: t\""
H_CT2 == "\"content-type :2:3 \""
H_NOCOLON == "\"nocolon\""
H_QUEUE == "\"Q: \" + input.queue"

UrlExprs == {U_LIT, U_QUEUE, U_ESCAPE, U_ENV}
Transforms == {"", T_WRAP, T_FIELD, T_INF}
Methods == {"POST", "PUT", "B D"}
HeaderExprs == {H_CT, H_CT2, H_NOCOLON, H_QUEUE}

Ok(v) == [ok |-> TRUE, val |-> v, cause |-> ""]
Fail(c) == [ok |-> FALSE, val |-> Nil, cause |-> c]

\* member access: a missing key of a map is nil, anything but a map cannot be fetched from
Fetch(v, k) ==
    IF v.t = "obj"
    THEN Ok(IF k \in DOMAIN v.m THEN v.m[k] ELSE Nil)
    ELSE Fail("cannot fetch from " \o v.t)

\* member access on the env map: the value of the variable
FetchEnv(m, k) == Ok(Str(IF k \in DOMAIN m THEN m[k] ELSE <<>>))

\* string + operand: only a string operand can be added
Add(s, r) ==
    IF ~r.ok THEN r
    ELSE IF r.val.t = "str" THEN Ok(Str(s \o r.val.s))
    ELSE Fail("invalid operation: string + " \o r.val.t)

\* {data: operand}
MapData(r) == IF ~r.ok THEN r ELSE Ok(Obj([k \in {"data"} |-> r.val]))

evaluateExpression(expression, env) ==
    CASE expression = U_LIT -> Ok(Str(<<"http://h/p">>))
      [] expression = U_QUEUE -> Add(<<"http://h/p?queue=">>, Fetch(env.input, "queue"))
      [] expression = U_ESCAPE -> Ok(Str(<<"%zz">>))
      [] expression = U_ENV -> FetchEnv(env.env, <<"API_ENDPOINT">>)
      [] expression = T_WRAP -> MapData(Ok(env.input))
      [] expression = T_FIELD -> MapData(Fetch(env.input, "queue"))
      [] expression = T_INF -> Ok(Inf)
      [] expression = H_CT -> Ok(Str(<<"Content-Type", ":", " ", "t">>))
      [] expression = H_CT2 -> Ok(Str(<<"content-type", " ", ":", "2", ":", "3", " ">>))
      [] expression = H_NOCOLON -> Ok(Str(<<"nocolon">>))
      [] expression = H_QUEUE -> Add(<<"Q", ":", " ">>, Fetch(env.input, "queue"))
      [] OTHER -> Fail("unexpected token")

\* fmt.Sprintf("%v", v)
Sprint(v) ==
    CASE v.t = "str" -> v.s
      [] v.t = "num" -> v.s
      [] v.t = "nil" -> <<"<nil>">>
      [] v.t = "inf" -> <<"+Inf">>
      [] OTHER -> <<"map[", "]">>

----------------------------------------------------------------------------
(* net/http *)

NoHeader == [k \in {} |-> <<>>]
NoRequest == [method |-> "", url |-> <<>>, header |-> NoHeader, body |-> <<>>]

\* textproto.CanonicalMIMEHeaderKey over the header names of the model
CanonicalTable == [n \in {"q", "Q", "content-type", "Content-Type"} |->
                    CASE n \in {"q", "Q"} -> "Q"
                      [] OTHER -> "Content-Type"]

\* a key holding a space or another non-token byte is left as it is
CanonicalMIMEHeaderKey(name) ==
    IF Len(name) = 1 /\ name[1] \in DOMAIN CanonicalTable
    THEN <<CanonicalTable[name[1]]>>
    ELSE name

\* a set that keeps the value a name already has
HeaderSetIfAbsent(h, key, value) ==
    LET k == CanonicalMIMEHeaderKey(key)
    IN [n \in DOMAIN h \cup {k} |-> IF n \in DOMAIN h THEN h[n] ELSE value]

\* http.Header.Set
HeaderSet(h, key, value) ==
    LET k == CanonicalMIMEHeaderKey(key)
    IN [n \in DOMAIN h \cup {k} |-> IF n = k THEN value ELSE h[n]]

\* a check that takes any method
ValidMethodAny(method) == TRUE

ValidMethod(method) == method \in {"POST", "PUT"}
ValidURL(url) == url # <<>> /\ url[1] # "%zz"

\* http.NewRequest
NewRequest(method, url, body) ==
    IF ValidMethod(method) /\ ValidURL(url)
    THEN [ok |-> TRUE,
          req |-> [method |-> method, url |-> url, header |-> NoHeader, body |-> body]]
    ELSE [ok |-> FALSE, req |-> NoRequest]

Responses == {[status |-> "200 OK", code |-> 200, body |-> "ok"],
              [status |-> "404 Not Found", code |-> 404, body |-> "not found"]}

----------------------------------------------------------------------------
(* the process environment *)

NoEnv == [k \in {} |-> <<>>]

\* getEnvMap over the entries os.Environ returns: a later entry of a name wins
RECURSIVE getEnvMap(_)
getEnvMap(es) ==
    IF es = <<>> THEN NoEnv
    ELSE LET rest == getEnvMap(SubSeq(es, 1, Len(es) - 1))
             pair == SplitN2(es[Len(es)], "=")
         IN IF Len(pair) = 2
            THEN [n \in DOMAIN rest \cup {pair[1]} |->
                    IF n = pair[1] THEN pair[2] ELSE rest[n]]
            ELSE rest

E_PLAIN == <<<<"API_ENDPOINT", "=", "http://h/e">>>>
E_QUERY == <<<<"NOVALUE">>, <<"API_ENDPOINT", "=", "http://h/e?a", "=", "b">>>>

Environs == {E_PLAIN, E_QUERY}

----------------------------------------------------------------------------
(* input lines *)

L_EMPTY == <<>>
L_SPACE == <<" ", " ">>
L_BAD == <<"{", "bad">>
L_U == <<"{", "\"queue\"", ":", "\"u\"", "}">>
L_V == <<" ", "{", "\"queue\"", ":", " ", "\"v\"", ",", "\"id\"", ":", "1.0", "}">>
L_NULL == <<"null">>

Lines == {L_EMPTY, L_SPACE, L_BAD, L_U, L_V, L_NULL}

----------------------------------------------------------------------------
(* the program *)

VARIABLES
    dryRunArg,      \* --dry-run is on the command line
    urlExpr,        \* args[0]
    transform,      \* --transform
    requestMethod,  \* --request
    headers,        \* --header, in the order given
    environ,        \* os.Environ(), the .env file loaded
    pc,             \* where the program is
    read,           \* the lines scanner.Scan has returned so far
    scanErr,        \* scanner.Err()
    line,           \* processLine: its argument
    input,          \* processLine: the decoded record
    url,            \* processLine: the evaluated URL
    body,           \* processLine: the value to send
    bodyBytes,      \* processLine: its encoding
    req,            \* processLine: the request being assembled
    hi,             \* processLine: index of the next header expression
    envMap,         \* processLine: the map bound to env
    err,            \* processLine: the error returned, <<>> for nil
    wire,           \* the requests client.Do was given, in order
    stdout,         \* what was written to os.Stdout, one entry for each Printf
    stderr,         \* what was written to os.Stderr, one entry for each Fprintf
    exitCode,       \* the exit status, -1 while running
    calls,          \* history: the line numbers processLine was called for
    failures,       \* history: the phase of each error processLine returned
    evaluated,      \* history: the strings the header expressions evaluated to
    received,       \* history: the responses client.Do returned
    envReads,       \* history: the maps getEnvMap returned
    steps           \* history: the steps of processLine that were run

\* Every entry of wire, stdout, stderr and of the histories carries in "by" the
\* number of the line that was being processed, 0 outside processLine.

config == <<dryRunArg, urlExpr, transform, requestMethod, headers, environ>>
locals == <<line, input, url, body, bodyBytes, req, hi, envMap>>
sinks == <<stdout, stderr>>
history == <<calls, failures, evaluated, received, envReads, steps>>
vars == <<config, pc, read, scanErr, locals, err, wire, sinks, exitCode, history>>

NoError == <<>>

RECURSIVE SeqsUpTo(_, _)
SeqsUpTo(S, n) ==
    IF n = 0 THEN {<<>>}
    ELSE LET shorter == SeqsUpTo(S, n - 1)
         IN shorter \cup {Append(q, x) : q \in shorter, x \in S}

InitLocals ==
    /\ line = <<>>
    /\ input = Nil
    /\ url = Nil
    /\ body = Nil
    /\ bodyBytes = <<>>
    /\ req = NoRequest
    /\ hi = 0
    /\ envMap = NoEnv

\* The command lines: any headers, none of them given twice, with the default
\* URL literal, transform and method, or at most one header with one of the
\* three changed. The environment matters to the URL that reads it only.
Init ==
    /\ dryRunArg \in BOOLEAN
    /\ urlExpr \in UrlExprs
    /\ transform \in Transforms
    /\ requestMethod \in Methods
    /\ headers \in SeqsUpTo(HeaderExprs, MaxHeaders)
    /\ \A j, k \in DOMAIN headers : j # k => headers[j] # headers[k]
    /\ environ \in Environs
    /\ urlExpr # U_ENV => environ = E_PLAIN
    /\ LET other == {urlExpr, transform, requestMethod} \ {U_LIT, "", "POST"}
       IN \/ other = {}
          \/ Cardinality(other) = 1 /\ Len(headers) <= 1
    /\ pc = "execute"
    /\ read = <<>>
    /\ scanErr = NoError
    /\ InitLocals
    /\ err = NoError
    /\ wire = <<>>
    /\ stdout = <<>>
    /\ stderr = <<>>
    /\ exitCode = -1
    /\ calls = <<>>
    /\ failures = <<>>
    /\ evaluated = <<>>
    /\ received = <<>>
    /\ envReads = <<>>
    /\ steps = <<>>

\* the number of the line at hand
lineNo == Len(read)

Written(text, n) == [text |-> text, by |-> n]

\* a flag set that takes --dry-run and a run that never looks at it
ExecuteAnyFlag ==
    /\ pc = "execute"
    /\ pc' = "scan"
    /\ UNCHANGED <<config, read, scanErr, locals, err, wire, sinks, exitCode, history>>

\* rootCmd.Execute: the flag set holds --header, --transform and --request only
Execute ==
    /\ pc = "execute"
    /\ IF dryRunArg
       THEN /\ pc' = "exit"
            /\ exitCode' = 1
            /\ stderr' = Append(stderr, Written(<<"Error: ", "unknown flag: --dry-run">>, 0))
       ELSE /\ pc' = "scan"
            /\ UNCHANGED <<exitCode, stderr>>
    /\ UNCHANGED <<config, read, scanErr, locals, err, wire, stdout, history>>

\* run: scanner.Scan returns a blank line
ScanBlank ==
    /\ pc = "scan"
    /\ Len(read) < MaxLines
    /\ \E l \in Lines :
        /\ TrimSpace(l) = <<>>
        /\ read' = Append(read, l)
    /\ UNCHANGED <<config, pc, scanErr, locals, err, wire, sinks, exitCode, history>>

\* run: scanner.Scan returns a line that processLine is called with
ScanLine ==
    /\ pc = "scan"
    /\ Len(read) < MaxLines
    /\ \E l \in Lines :
        /\ TrimSpace(l) # <<>>
        /\ read' = Append(read, l)
        /\ line' = l
    /\ calls' = Append(calls, lineNo + 1)
    /\ pc' = "decode"
    /\ UNCHANGED <<config, scanErr, input, url, body, bodyBytes, req, hi, envMap, err,
                   wire, sinks, exitCode, failures, evaluated, received, envReads, steps>>

\* run: scanner.Scan returns false at the end of the input
ScanEOF ==
    /\ pc = "scan"
    /\ pc' = "exit"
    /\ exitCode' = 0
    /\ UNCHANGED <<config, read, scanErr, locals, err, wire, sinks, history>>

\* a read failure that is reported and then treated as the end of the input
ScanErrorExitsZero ==
    /\ pc = "scan"
    /\ scanErr' = <<"read error">>
    /\ stderr' = Append(stderr, Written(<<"Error reading stdin: ">> \o scanErr', 0))
    /\ pc' = "exit"
    /\ exitCode' = 0
    /\ UNCHANGED <<config, read, locals, err, wire, stdout, history>>

\* run: scanner.Scan returns false and scanner.Err is not nil
ScanError ==
    /\ pc = "scan"
    /\ scanErr' = <<"read error">>
    /\ stderr' = Append(stderr, Written(<<"Error reading stdin: ">> \o scanErr', 0))
    /\ pc' = "exit"
    /\ exitCode' = 1
    /\ UNCHANGED <<config, read, locals, err, wire, stdout, history>>

\* processLine returns e, which phase is the source of
Return(e, phase) ==
    /\ pc' = "returned"
    /\ err' = e
    /\ failures' = IF e = NoError THEN failures
                   ELSE Append(failures, [by |-> lineNo, phase |-> phase])

\* processLine runs step s; n is the index of the header expression, 0 elsewhere
Step(s, n) == steps' = Append(steps, [by |-> lineNo, step |-> s, n |-> n])

\* a context built from the map of the first call, the environment read once
DecodeOnce ==
    /\ pc = "decode"
    /\ Step("decode", 0)
    /\ LET r == Unmarshal(line)
       IN IF r.ok
          THEN /\ input' = r.val
               /\ envMap' = IF envReads = <<>> THEN getEnvMap(environ)
                             ELSE envReads[1].map
               /\ envReads' = IF envReads = <<>>
                               THEN <<[by |-> lineNo, map |-> envMap']>>
                               ELSE envReads
               /\ pc' = "url"
               /\ UNCHANGED <<err, failures>>
          ELSE /\ Return(<<"parsing JSON: ", "invalid character">>, "decode")
               /\ UNCHANGED <<input, envMap, envReads>>
    /\ UNCHANGED <<config, read, scanErr, line, url, body, bodyBytes, req, hi, wire,
                   sinks, exitCode, calls, evaluated, received>>

\* processLine: the line is decoded and the evaluation context is built
Decode ==
    /\ pc = "decode"
    /\ Step("decode", 0)
    /\ LET r == Unmarshal(line)
       IN IF r.ok
          THEN /\ input' = r.val
               /\ envMap' = getEnvMap(environ)
               /\ envReads' = Append(envReads, [by |-> lineNo, map |-> envMap'])
               /\ pc' = "url"
               /\ UNCHANGED <<err, failures>>
          ELSE /\ Return(<<"parsing JSON: ", "invalid character">>, "decode")
               /\ UNCHANGED <<input, envMap, envReads>>
    /\ UNCHANGED <<config, read, scanErr, line, url, body, bodyBytes, req, hi, wire,
                   sinks, exitCode, calls, evaluated, received>>

env == [input |-> input, env |-> envMap]

EvalURL ==
    /\ pc = "url"
    /\ Step("url", 0)
    /\ LET r == evaluateExpression(urlExpr, env)
       IN IF r.ok
          THEN /\ url' = r.val
               /\ pc' = "transform"
               /\ UNCHANGED <<err, failures>>
          ELSE /\ Return(<<"evaluating URL expression: ", r.cause>>, "url")
               /\ UNCHANGED url
    /\ UNCHANGED <<config, read, scanErr, line, input, body, bodyBytes, req, hi, envMap,
                   wire, sinks, exitCode, calls, evaluated, received, envReads>>

Transform ==
    /\ pc = "transform"
    /\ IF transform # "" THEN Step("transform", 0) ELSE UNCHANGED steps
    /\ LET r == IF transform # "" THEN evaluateExpression(transform, env) ELSE Ok(input)
       IN IF r.ok
          THEN /\ body' = r.val
               /\ pc' = "marshal"
               /\ UNCHANGED <<err, failures>>
          ELSE /\ Return(<<"evaluating transform expression: ", r.cause>>, "transform")
               /\ UNCHANGED body
    /\ UNCHANGED <<config, read, scanErr, line, input, url, bodyBytes, req, hi, envMap,
                   wire, sinks, exitCode, calls, evaluated, received, envReads>>

\* a body that is the input line as read
MarshalBodyRaw ==
    /\ pc = "marshal"
    /\ Step("marshal", 0)
    /\ bodyBytes' = line
    /\ pc' = "request"
    /\ UNCHANGED <<config, read, scanErr, line, input, url, body, req, hi, envMap, err,
                   wire, sinks, exitCode, calls, failures, evaluated, received,
                   envReads>>

MarshalBody ==
    /\ pc = "marshal"
    /\ Step("marshal", 0)
    /\ LET r == Marshal(body)
       IN IF r.ok
          THEN /\ bodyBytes' = r.bytes
               /\ pc' = "request"
               /\ UNCHANGED <<err, failures>>
          ELSE /\ Return(<<"marshaling body: ", "unsupported value">>, "marshal")
               /\ UNCHANGED bodyBytes
    /\ UNCHANGED <<config, read, scanErr, line, input, url, body, req, hi, envMap,
                   wire, sinks, exitCode, calls, evaluated, received, envReads>>

CreateRequest ==
    /\ pc = "request"
    /\ Step("request", 0)
    /\ LET r == NewRequest(requestMethod, Sprint(url), bodyBytes)
       IN IF r.ok
          THEN /\ req' = [r.req EXCEPT !.header =
                            HeaderSet(@, <<"Content-Type">>, <<"application/json">>)]
               /\ hi' = 1
               /\ pc' = "header"
               /\ UNCHANGED <<err, failures>>
          ELSE /\ Return(<<"creating request: ", "invalid method or URL">>, "request")
               /\ UNCHANGED <<req, hi>>
    /\ UNCHANGED <<config, read, scanErr, line, input, url, body, bodyBytes, envMap,
                   wire, sinks, exitCode, calls, evaluated, received, envReads>>

\* a loop over the header expressions that notes a failure and goes on to the
\* next header
AddHeaderCarriesOn ==
    /\ pc = "header"
    /\ hi <= Len(headers)
    /\ Step("header", hi)
    /\ LET r == evaluateExpression(headers[hi], env)
           headerStr == Sprint(r.val)
           parts == SplitN2(headerStr, ":")
       IN /\ hi' = hi + 1
          /\ IF ~r.ok
             THEN /\ err' = <<"evaluating header expression: ", r.cause>>
                  /\ failures' = Append(failures, [by |-> lineNo, phase |-> "header"])
                  /\ UNCHANGED <<req, evaluated>>
             ELSE /\ evaluated' = Append(evaluated, [by |-> lineNo, str |-> headerStr])
                  /\ IF Len(parts) = 2
                     THEN /\ req' = [req EXCEPT !.header =
                                       HeaderSet(@, TrimSpace(parts[1]),
                                                 TrimSpace(parts[2]))]
                          /\ UNCHANGED <<err, failures>>
                     ELSE /\ err' = <<"invalid header format: ">> \o headerStr
                          /\ failures' = Append(failures,
                                                [by |-> lineNo, phase |-> "format"])
                          /\ UNCHANGED req
    /\ UNCHANGED <<config, pc, read, scanErr, line, input, url, body, bodyBytes, envMap,
                   wire, sinks, exitCode, calls, received, envReads>>

\* processLine: one turn of the loop over the header expressions; each local
\* of the loop body is bound to its value once, as the assignment does
AddHeader ==
    /\ pc = "header"
    /\ hi <= Len(headers)
    /\ Step("header", hi)
    /\ \E r \in {evaluateExpression(headers[hi], env)} :
       \E headerStr \in {Sprint(r.val)} :
       \E parts \in {SplitN2(headerStr, ":")} :
          IF ~r.ok
          THEN /\ Return(<<"evaluating header expression: ", r.cause>>, "header")
               /\ UNCHANGED <<req, hi, evaluated>>
          ELSE /\ evaluated' = Append(evaluated, [by |-> lineNo, str |-> headerStr])
               /\ IF Len(parts) = 2
                  THEN /\ \E name \in {TrimSpace(parts[1])},
                             value \in {TrimSpace(parts[2])} :
                            req' = [req EXCEPT !.header = HeaderSet(@, name, value)]
                       /\ hi' = hi + 1
                       /\ UNCHANGED <<pc, err, failures>>
                  ELSE /\ Return(<<"invalid header format: ">> \o headerStr, "format")
                       /\ UNCHANGED <<req, hi>>
    /\ UNCHANGED <<config, read, scanErr, line, input, url, body, bodyBytes, envMap,
                   wire, sinks, exitCode, calls, received, envReads>>

\* a request handed over without waiting for client.Do to return
SendAndForget ==
    /\ pc = "header"
    /\ hi > Len(headers)
    /\ Step("send", 0)
    /\ wire' = Append(wire, [by |-> lineNo, req |-> req])
    /\ Return(NoError, "")
    /\ UNCHANGED <<config, read, scanErr, locals, sinks, exitCode, calls, evaluated,
                   received, envReads>>

\* processLine: client.Do is called with the request
Send ==
    /\ pc = "header"
    /\ hi > Len(headers)
    /\ Step("send", 0)
    /\ wire' = Append(wire, [by |-> lineNo, req |-> req])
    /\ pc' = "inflight"
    /\ UNCHANGED <<config, read, scanErr, locals, err, sinks, exitCode, calls, failures,
                   evaluated, received, envReads>>

\* a transport error reported on stdout as a status line as well
SendFailsWithStatusLine ==
    /\ pc = "inflight"
    /\ Return(<<"sending request: ", "connection refused">>, "send")
    /\ stdout' = Append(stdout,
                    Written(<<"Status: ", "connection refused", ", Response: ", "">>,
                            lineNo))
    /\ UNCHANGED <<config, read, scanErr, locals, wire, stderr, exitCode, calls,
                   evaluated, received, envReads, steps>>

\* processLine: client.Do returns an error
SendFails ==
    /\ pc = "inflight"
    /\ Return(<<"sending request: ", "connection refused">>, "send")
    /\ UNCHANGED <<config, read, scanErr, locals, wire, sinks, exitCode, calls,
                   evaluated, received, envReads, steps>>

\* a status check made before the response is printed
RespondChecksFirst ==
    /\ pc = "inflight"
    /\ \E resp \in Responses :
        /\ received' = Append(received, [by |-> lineNo, resp |-> resp])
        /\ IF resp.code >= 400
           THEN /\ Return(<<"HTTP error: ", resp.status>>, "status")
                /\ UNCHANGED stdout
           ELSE /\ Return(NoError, "")
                /\ stdout' = Append(stdout,
                                Written(<<"Status: ", resp.status, ", Response: ",
                                          resp.body>>, lineNo))
    /\ UNCHANGED <<config, read, scanErr, locals, wire, stderr, exitCode, calls,
                   evaluated, envReads, steps>>

\* processLine: client.Do returns a response, which is read and printed
Respond ==
    /\ pc = "inflight"
    /\ \E resp \in Responses :
        /\ received' = Append(received, [by |-> lineNo, resp |-> resp])
        /\ stdout' = Append(stdout,
                        Written(<<"Status: ", resp.status, ", Response: ", resp.body>>,
                                lineNo))
        /\ IF resp.code >= 400
           THEN Return(<<"HTTP error: ", resp.status>>, "status")
           ELSE Return(NoError, "")
    /\ UNCHANGED <<config, read, scanErr, locals, wire, stderr, exitCode, calls,
                   evaluated, envReads, steps>>

\* a loop that goes on after a line that succeeded and hangs after one that failed
HandleResultHangs ==
    /\ pc = "returned"
    /\ err = NoError
    /\ pc' = "scan"
    /\ line' = <<>>
    /\ input' = Nil
    /\ url' = Nil
    /\ body' = Nil
    /\ bodyBytes' = <<>>
    /\ req' = NoRequest
    /\ hi' = 0
    /\ envMap' = NoEnv
    /\ UNCHANGED <<config, read, scanErr, err, wire, sinks, exitCode, history>>

\* a loop that gives up at the first line that fails
HandleResultFatal ==
    /\ pc = "returned"
    /\ stderr' = IF err # NoError
                 THEN Append(stderr, Written(<<"Error processing line: ">> \o err, lineNo))
                 ELSE stderr
    /\ pc' = IF err # NoError THEN "exit" ELSE "scan"
    /\ exitCode' = IF err # NoError THEN 1 ELSE exitCode
    /\ err' = NoError
    /\ line' = <<>>
    /\ input' = Nil
    /\ url' = Nil
    /\ body' = Nil
    /\ bodyBytes' = <<>>
    /\ req' = NoRequest
    /\ hi' = 0
    /\ envMap' = NoEnv
    /\ UNCHANGED <<config, read, scanErr, wire, stdout, history>>

\* a loop that reports a failed line without the error
HandleResultTerse ==
    /\ pc = "returned"
    /\ stderr' = IF err # NoError
                 THEN Append(stderr, Written(<<"Error processing line">>, lineNo))
                 ELSE stderr
    /\ pc' = "scan"
    /\ err' = NoError
    /\ line' = <<>>
    /\ input' = Nil
    /\ url' = Nil
    /\ body' = Nil
    /\ bodyBytes' = <<>>
    /\ req' = NoRequest
    /\ hi' = 0
    /\ envMap' = NoEnv
    /\ UNCHANGED <<config, read, scanErr, wire, stdout, exitCode, history>>

\* run: what the loop does with the error processLine returned
HandleResult ==
    /\ pc = "returned"
    /\ stderr' = IF err # NoError
                 THEN Append(stderr, Written(<<"Error processing line: ">> \o err, lineNo))
                 ELSE stderr
    /\ pc' = "scan"
    /\ err' = NoError
    /\ line' = <<>>
    /\ input' = Nil
    /\ url' = Nil
    /\ body' = Nil
    /\ bodyBytes' = <<>>
    /\ req' = NoRequest
    /\ hi' = 0
    /\ envMap' = NoEnv
    /\ UNCHANGED <<config, read, scanErr, wire, stdout, exitCode, history>>

Next ==
    \/ Execute
    \/ ScanBlank
    \/ ScanLine
    \/ ScanEOF
    \/ ScanError
    \/ Decode
    \/ EvalURL
    \/ Transform
    \/ MarshalBody
    \/ CreateRequest
    \/ AddHeader
    \/ Send
    \/ SendFails
    \/ Respond
    \/ HandleResult

Spec == Init /\ [][Next]_vars

\* The program is one sequential thread: a statement that can run does run.
\* scanner.Scan returns for every read of a finite stream, and client.Do is
\* taken to return, with a response or with an error, for every request.
SpecLive == Init /\ [][Next]_vars /\ WF_vars(Next)

----------------------------------------------------------------------------
(* properties *)

Range(q) == {q[i] : i \in DOMAIN q}

\* nothing but whitespace, the empty line included
Blank(l) == \A i \in DOMAIN l : l[i] = " "

HasColon(str) == \E i \in DOMAIN str : str[i] = ":"

\* the entries of log q made while line i was processed
By(q, i) == SelectSeq(q, LAMBDA e : e.by = i)

\* the lines of stderr that report an error of processLine
PerLineErrors == SelectSeq(stderr, LAMBDA e : e.text[1] \in {"Error processing line: ",
                                                              "Error processing line"})

\* the program ended because Scan returned false, at the end of the input or on
\* a read failure
ExitFromScan == exitCode = 0 \/ scanErr # NoError

\* C1: an error returned by processLine, whatever the phase it comes from, is
\* written to stderr and the loop goes back to Scan without exiting; every
\* non-blank line read, also after a failed one, is passed to processLine.
C1_PerLineErrorsAreLoggedAndSkipped ==
    [][/\ (pc = "returned" /\ err # NoError) =>
            /\ pc' = "scan"
            /\ exitCode' = -1
            /\ stderr' = Append(stderr, [text |-> <<"Error processing line: ">> \o err,
                                         by |-> lineNo])
       /\ (\A i \in DOMAIN read : ~Blank(read[i]) => i \in Range(calls))'
       /\ (pc = "exit" /\ ~dryRunArg => ExitFromScan)']_vars

\* a line failed, the next non-blank line was processed and the input then ended
C1_Witness ==
    /\ pc = "exit"
    /\ exitCode = 0
    /\ \E f \in Range(failures) : \E c \in Range(calls) : c > f.by

\* C2: with --dry-run on the command line no request is ever given to the
\* HTTP client, whatever the URL expression and the method.
C2_DryRunSendsNothing == dryRunArg => wire = <<>> /\ pc # "inflight"

\* the program was started with --dry-run and has ended
C2_Witness == dryRunArg /\ pc = "exit" /\ exitCode = 1

\* C3: with --dry-run the program reads its input, and each record whose steps
\* all succeed is described on stdout.
C3_DryRunPrintsRequest ==
    dryRunArg /\ pc = "exit" =>
        /\ ExitFromScan
        /\ \A i \in Range(calls) : By(failures, i) = <<>> => By(stdout, i) # <<>>

\* C4: a blank or whitespace-only line is not passed to processLine, leaves no
\* line on stdout or stderr and no request, and the loop goes on scanning.
C4_BlankLinesAreSkipped ==
    \A i \in DOMAIN read :
        Blank(read[i]) =>
            /\ i \notin Range(calls)
            /\ By(stdout, i) = <<>>
            /\ By(stderr, i) = <<>>
            /\ By(wire, i) = <<>>
            /\ i = Len(read) => pc \in {"scan", "exit"}

\* a whitespace-only line was read and the line after it too
C4_Witness ==
    \E i \in DOMAIN read : read[i] = L_SPACE /\ i < Len(read) /\ pc = "exit"

\* C5: a header expression that evaluates to a string without a colon, at
\* whatever position, makes processLine return the header-format error, and no
\* request is sent for that record.
C5_HeaderWithoutColonFails ==
    \A k \in DOMAIN evaluated :
        ~HasColon(evaluated[k].str) =>
            /\ [by |-> evaluated[k].by, phase |-> "format"] \in Range(failures)
            /\ By(wire, evaluated[k].by) = <<>>
            /\ evaluated[k].by = lineNo => pc \in {"returned", "scan", "exit"}

\* the header without a colon came second, after a well-formed one
C5_Witness ==
    /\ pc = "exit"
    /\ \E k \in DOMAIN evaluated :
        /\ k > 1
        /\ evaluated[k - 1].by = evaluated[k].by
        /\ ~HasColon(evaluated[k].str)

\* name and value of an evaluated header string
HeaderName(str) == CanonicalMIMEHeaderKey(TrimSpace(SubSeq(str, 1, IndexOf(str, ":") - 1)))
HeaderValue(str) == TrimSpace(SubSeq(str, IndexOf(str, ":") + 1, Len(str)))

\* the header entries of line i: the default, then each evaluated header in order
HeaderEntries(i) ==
    LET strs == By(evaluated, i)
    IN <<[name |-> <<"Content-Type">>, value |-> <<"application/json">>]>> \o
       [k \in DOMAIN strs |->
           [name |-> HeaderName(strs[k].str), value |-> HeaderValue(strs[k].str)]]

\* C6: a request that is sent carries, for each header name among the default
\* Content-Type and the evaluated header expressions, exactly one value, that
\* of the last entry with that name (names compared as the header map does).
C6_LastHeaderWins ==
    \A w \in Range(wire) :
        LET e == HeaderEntries(w.by)
        IN /\ DOMAIN w.req.header = {e[j].name : j \in DOMAIN e}
           /\ \A j \in DOMAIN e :
                (\A j2 \in DOMAIN e : j2 > j => e[j2].name # e[j].name)
                    => w.req.header[e[j].name] = e[j].value

\* a sent request in which a later --header replaced an earlier one of its name,
\* which had replaced the default
C6_Witness ==
    \E w \in Range(wire) :
        LET e == HeaderEntries(w.by)
        IN \E j, j2 \in DOMAIN e :
            /\ 1 < j
            /\ j < j2
            /\ e[j].name = e[j2].name
            /\ e[j].value # e[j2].value

\* the line written to stdout for response r
StatusLine(r) == <<"Status: ", r.status, ", Response: ", r.body>>

\* C7: every response received is written to stdout as its status line,
\* whatever the status code; for a code of 400 or more processLine returns the
\* HTTP error with that line already written, the error is logged after it,
\* and the program ends only when Scan returns false.
C7_ResponseIsPrintedBeforeTheError ==
    /\ Len(stdout) = Len(received)
    /\ \A k \in DOMAIN received :
        /\ stdout[k] = [text |-> StatusLine(received[k].resp), by |-> received[k].by]
        /\ received[k].resp.code >= 400 =>
              [by |-> received[k].by, phase |-> "status"] \in Range(failures)
    /\ \A f \in Range(failures) :
        f.phase = "status" =>
            /\ \E k \in DOMAIN received :
                  received[k].by = f.by /\ received[k].resp.code >= 400
            /\ By(stdout, f.by) # <<>>
            /\ pc = "exit" => ExitFromScan
    /\ \A e \in Range(PerLineErrors) :
        Len(e.text) >= 2 /\ e.text[2] = "HTTP error: " => By(stdout, e.by) # <<>>

\* a 404 was printed and logged, and the line after it was processed
C7_Witness ==
    \E k \in DOMAIN received :
        /\ received[k].resp.code = 404
        /\ stdout[k].text = <<"Status: ", "404 Not Found", ", Response: ", "not found">>
        /\ \E e \in Range(stderr) : e.by = received[k].by /\ e.text[2] = "HTTP error: "
        /\ \E c \in Range(calls) : c > received[k].by

\* C8: once run has started, the program exits with status 1 exactly when
\* reading stdin failed, and with status 0 at the end of the input, however
\* many lines failed.
C8_ExitStatus ==
    pc = "exit" /\ ~dryRunArg =>
        /\ exitCode = 1 <=> scanErr # NoError
        /\ exitCode = 0 <=> scanErr = NoError

\* the input ended after a line that failed
C8_Witness == pc = "exit" /\ exitCode = 0 /\ scanErr = NoError /\ failures # <<>>

\* what the body of the request for a decoded record has to be
ExpectedBody(record) ==
    IF transform = ""
    THEN Marshal(record).bytes
    ELSE Marshal(evaluateExpression(transform, [input |-> record]).val).bytes

\* C9: without a transform the body of the request built for a line is the
\* JSON encoding of the decoded record: it decodes to the same record and has
\* none of the whitespace of the input; with a transform it is the encoding of
\* the transform's result.
C9_BodyIsTheEncodedRecord ==
    /\ \A w \in Range(wire) :
        LET record == Unmarshal(read[w.by])
        IN /\ record.ok
           /\ w.req.body = ExpectedBody(record.val)
           /\ transform = "" =>
                /\ Unmarshal(w.req.body) = record
                /\ \A i \in DOMAIN w.req.body : w.req.body[i] # " "
           /\ transform = T_WRAP =>
                w.req.body = <<"{", "\"data\"", ":">> \o Marshal(record.val).bytes
                             \o <<"}">>
    /\ pc \in {"header", "inflight"} => req.body = ExpectedBody(Unmarshal(line).val)

\* a body sent without a transform that differs from the bytes of its line
C9_Witness ==
    /\ transform = ""
    /\ \E w \in Range(wire) :
        /\ read[w.by] = L_V
        /\ w.req.body = <<"{", "\"id\"", ":", "1", ",", "\"queue\"", ":", "\"v\"", "}">>

\* the text each phase of processLine puts in front of the cause
PhasePrefix ==
    [ph \in {"decode", "url", "transform", "marshal", "request", "header", "format",
             "send", "status"} |->
        CASE ph = "decode" -> "parsing JSON: "
          [] ph = "url" -> "evaluating URL expression: "
          [] ph = "transform" -> "evaluating transform expression: "
          [] ph = "marshal" -> "marshaling body: "
          [] ph = "request" -> "creating request: "
          [] ph = "header" -> "evaluating header expression: "
          [] ph = "format" -> "invalid header format: "
          [] ph = "send" -> "sending request: "
          [] OTHER -> "HTTP error: "]

\* the errors returned by processLine that run has dealt with
HandledFailures ==
    IF pc = "returned" /\ err # NoError
    THEN SubSeq(failures, 1, Len(failures) - 1)
    ELSE failures

\* C10 (as amended): each error returned by processLine puts exactly one line
\* on stderr, made of "Error processing line: ", the text of the phase that
\* failed and the cause.
C10_ErrorLineNamesPhaseAndCause ==
    /\ Len(PerLineErrors) = Len(HandledFailures)
    /\ \A k \in DOMAIN PerLineErrors :
        /\ PerLineErrors[k].by = HandledFailures[k].by
        /\ Len(PerLineErrors[k].text) >= 3
        /\ PerLineErrors[k].text[1] = "Error processing line: "
        /\ PerLineErrors[k].text[2] = PhasePrefix[HandledFailures[k].phase]

\* two lines failed in different phases
C10_Witness ==
    /\ Len(PerLineErrors) = 2
    /\ PerLineErrors[1].text[2] # PerLineErrors[2].text[2]
    /\ PerLineErrors[1].by # PerLineErrors[2].by

\* C10 (as claimed): the line on stderr also identifies the number of the
\* input line that failed, so that equal error lines come from the same line.
C10_ErrorLineNamesLineNumber ==
    /\ C10_ErrorLineNamesPhaseAndCause
    /\ \A j, k \in DOMAIN PerLineErrors :
        PerLineErrors[j].text = PerLineErrors[k].text
            => PerLineErrors[j].by = PerLineErrors[k].by

----------------------------------------------------------------------------
(* C11: the env mapping *)

PositionsOf(s, c) == {i \in DOMAIN s : s[i] = c}
Least(S) == CHOOSE i \in S : \A j \in S : i <= j
Greatest(S) == CHOOSE i \in S : \A j \in S : j <= i

\* the entries of the environment that hold a "="
Assignments == {k \in DOMAIN environ : PositionsOf(environ[k], "=") # {}}
NameOf(k) == SubSeq(environ[k], 1, Least(PositionsOf(environ[k], "=")) - 1)
ValueOf(k) == SubSeq(environ[k], Least(PositionsOf(environ[k], "=")) + 1,
                     Len(environ[k]))

\* name to value: the text after the first "=" of the last entry of the name
ExpectedEnv ==
    [n \in {NameOf(k) : k \in Assignments} |->
        ValueOf(Greatest({k \in Assignments : NameOf(k) = n}))]

\* the lines whose decoding is over and has not failed
DecodedLines ==
    {i \in Range(calls) :
        /\ i = lineNo => pc # "decode"
        /\ \A k \in DOMAIN failures :
                failures[k].by = i => failures[k].phase # "decode"}

\* C11 (as stated): the env mapping is a snapshot taken once at process start,
\* never while a line is processed, and every line sees that one mapping.
C11_EnvIsSnapshottedOnce ==
    /\ Len(envReads) <= 1
    /\ \A k \in DOMAIN envReads : envReads[k].by = 0
    /\ \A j, k \in DOMAIN envReads : envReads[j].map = envReads[k].map

\* C11 (as amended): the env mapping is built anew from the process environment
\* for every line that decodes, once for each such line and for no other; it
\* maps each name to the text after the first "=" of its entry, entries
\* without "=" left out. Nothing changes the environment during a run, so the
\* expressions of any two lines see equal mappings, and a URL taken from env
\* is the same for every request of the run.
C11_EnvIsReadForEveryDecodedLine ==
    LET expected == ExpectedEnv
    IN /\ \A i \in 1..lineNo :
            Len(By(envReads, i)) = IF i \in DecodedLines THEN 1 ELSE 0
       /\ \A k \in DOMAIN envReads :
            /\ envReads[k].by >= 1
            /\ envReads[k].map = expected
       /\ \A j, k \in DOMAIN envReads : envReads[j].map = envReads[k].map
       /\ pc \in {"url", "transform", "marshal", "request", "header", "inflight"}
            => env.env = expected
       /\ urlExpr = U_ENV =>
            \A k \in DOMAIN wire :
                wire[k].req.url = expected[<<"API_ENDPOINT">>]

\* two lines of one run were sent to the URL the environment gives, a value
\* with a "=" in it, and the environment holds an entry without "="
C11_Witness ==
    /\ pc = "exit"
    /\ urlExpr = U_ENV
    /\ environ = E_QUERY
    /\ Len(envReads) = 2
    /\ envReads[1].by # envReads[2].by
    /\ Len(wire) = 2
    /\ wire[2].req.url = <<"http://h/e?a", "=", "b">>

----------------------------------------------------------------------------
(* C12: one line at a time *)

StrictlyIncreasing(q) == \A j, k \in DOMAIN q : j < k => q[j].by < q[k].by

\* the requests of line i that client.Do has not yet returned from
Outstanding(i) ==
    Len(By(wire, i)) - Len(By(received, i))
        - Len(SelectSeq(failures, LAMBDA f : f.by = i /\ f.phase = "send"))

\* C12: processing is strictly sequential. A line is read only when the
\* processing of the line before it, its request and the reading of the
\* response included, is over; at most one request is in flight at any time,
\* one exactly while client.Do is running; and the lines of stdout, the error
\* lines and the requests sent are in the order of the input lines they come
\* from.
C12_StrictlySequential ==
    /\ [](/\ \A i \in 1..lineNo :
                Outstanding(i) = IF i = lineNo /\ pc = "inflight" THEN 1 ELSE 0
          /\ pc \in {"scan", "exit"} => err = NoError /\ req = NoRequest
          /\ \A j, k \in DOMAIN calls : j < k => calls[j] < calls[k]
          /\ \A k \in DOMAIN calls : calls[k] <= lineNo
          /\ StrictlyIncreasing(wire)
          /\ StrictlyIncreasing(stdout)
          /\ StrictlyIncreasing(PerLineErrors)
          /\ \A e \in Range(wire) \cup Range(stdout) \cup Range(PerLineErrors) :
                e.by \in 1..lineNo /\ ~Blank(read[e.by]))
    /\ [][/\ read' # read => /\ pc = "scan"
                             /\ \A i \in 1..lineNo : Outstanding(i) = 0
                             /\ read' = Append(read, read'[Len(read')])
          /\ wire' # wire => /\ \A i \in 1..lineNo : Outstanding(i) = 0
                             /\ wire' = Append(wire, wire'[Len(wire')])
                             /\ wire'[Len(wire')].by = lineNo
          /\ stdout' # stdout => /\ stdout' = Append(stdout, stdout'[Len(stdout')])
                                 /\ stdout'[Len(stdout')].by = lineNo]_vars

\* two lines were sent and answered one after the other, an error line
\* written for the first one
C12_Witness ==
    /\ pc = "exit"
    /\ Len(wire) = 2
    /\ Len(stdout) = 2
    /\ stdout[1].by = 1
    /\ stdout[2].by = 2
    /\ Len(PerLineErrors) = 1
    /\ PerLineErrors[1].by = 1

----------------------------------------------------------------------------
(* C13: the steps of one record *)

StepRecord(s, n) == [step |-> s, n |-> n]

\* the steps of a record none of which fails
FullOrder ==
    <<StepRecord("decode", 0), StepRecord("url", 0)>>
    \o (IF transform # "" THEN <<StepRecord("transform", 0)>> ELSE <<>>)
    \o <<StepRecord("marshal", 0), StepRecord("request", 0)>>
    \o [k \in 1..Len(headers) |-> StepRecord("header", k)]
    \o <<StepRecord("send", 0)>>

\* the steps run for line i, in the order they were run
StepsOf(i) ==
    LET q == By(steps, i)
    IN [k \in 1..Len(q) |-> StepRecord(q[k].step, q[k].n)]

\* the step an error of a phase comes from
PhaseStep(phase) ==
    CASE phase \in {"header", "format"} -> "header"
      [] phase \in {"send", "status"} -> "send"
      [] OTHER -> phase

\* processLine has returned for line i
Finished(i) == i < lineNo \/ pc \in {"returned", "scan", "exit"}

\* C13: the steps of a record run in the order decode, URL, transform (when one
\* is configured), encoding, request creation, the headers in the order
\* given, send. The step that fails first is the last one run for the record
\* and the one the error names: no later header is evaluated and nothing is
\* sent. A request is sent at most once for a line, and only after every step
\* before it has been run without failure.
C13_StepsRunInOrderUntilTheFirstFailure ==
    LET full == FullOrder
    IN \A i \in 1..lineNo :
        LET done == By(steps, i)
            failed == By(failures, i)
            sent == By(wire, i)
        IN /\ Len(done) <= Len(full)
           /\ \A k \in DOMAIN done :
                done[k].step = full[k].step /\ done[k].n = full[k].n
           /\ Len(failed) <= 1
           /\ Len(sent) <= 1
           /\ failed # <<>> =>
                /\ Finished(i)
                /\ done # <<>>
                /\ done[Len(done)].step = PhaseStep(failed[1].phase)
                /\ failed[1].phase \notin {"send", "status"} => sent = <<>>
                /\ Len(By(evaluated, i)) =
                     Len(SelectSeq(done, LAMBDA d : d.step = "header"))
                        - (IF failed[1].phase = "header" THEN 1 ELSE 0)
           /\ sent # <<>> => Len(done) = Len(full)
           /\ (Finished(i) /\ ~Blank(read[i]) /\ failed = <<>>) =>
                Len(done) = Len(full) /\ Len(sent) = 1
           /\ Blank(read[i]) => done = <<>>

\* with two headers configured, the first one failed for the first line, so
\* that the second one was not evaluated and nothing was sent, and the second
\* line went through every step and was sent
C13_Witness ==
    /\ pc = "exit"
    /\ Len(headers) = 2
    /\ lineNo = 2
    /\ Len(By(failures, 1)) = 1
    /\ failures[1].phase = "header"
    /\ Len(StepsOf(1)) = 5
    /\ By(evaluated, 1) = <<>>
    /\ By(failures, 2) = <<>>
    /\ Len(By(evaluated, 2)) = 2
    /\ Len(wire) = 1
    /\ wire[1].by = 2

----------------------------------------------------------------------------
(* C14: name and value of a header string *)

\* s without the whitespace at its two ends
Trimmed(s) ==
    LET solid == {i \in DOMAIN s : s[i] # " "}
    IN IF solid = {} THEN <<>> ELSE SubSeq(s, Least(solid), Greatest(solid))

NameBeforeFirstColon(str) ==
    Trimmed(SubSeq(str, 1, Least(PositionsOf(str, ":")) - 1))
ValueAfterFirstColon(str) ==
    Trimmed(SubSeq(str, Least(PositionsOf(str, ":")) + 1, Len(str)))

\* C14: the string a header expression has just evaluated to, when it holds a
\* colon, is split at its first colon only: the request carries, under the
\* trimmed text before that colon (in the canonical form of the header map),
\* the trimmed text after it, every further colon of the string kept in the
\* value. A string without a colon is a format error: processLine returns
\* "invalid header format" and the request gets no header from it.
C14_HeaderIsSplitAtTheFirstColon ==
    LET strs == By(evaluated, lineNo)
    IN (pc \in {"header", "inflight", "returned"} /\ strs # <<>>) =>
        LET str == strs[Len(strs)].str
        IN IF HasColon(str)
           THEN LET name == NameBeforeFirstColon(str)
                    value == ValueAfterFirstColon(str)
                    key == CanonicalMIMEHeaderKey(name)
                IN /\ ~HasColon(name)
                   /\ key \in DOMAIN req.header
                   /\ req.header[key] = value
                   /\ Cardinality(PositionsOf(req.header[key], ":"))
                        = Cardinality(PositionsOf(str, ":")) - 1
                   /\ value = <<>> \/ (value[1] # " " /\ value[Len(value)] # " ")
           ELSE /\ pc = "returned"
                /\ err = <<"invalid header format: ">> \o str
                /\ failures[Len(failures)] = [by |-> lineNo, phase |-> "format"]
                /\ \A k \in DOMAIN req.header : req.header[k] # str

\* a string with blanks around its name and value and with two colons gave
\* the value "2:3", and the string after it, without a colon, the format error
C14_Witness ==
    /\ pc = "returned"
    /\ headers = <<H_CT2, H_NOCOLON>>
    /\ Len(By(evaluated, lineNo)) = 2
    /\ req.header[<<"Content-Type">>] = <<"2", ":", "3">>
    /\ err = <<"invalid header format: ", "nocolon">>

----------------------------------------------------------------------------
(* C15: what one line writes *)

\* the loop is done with line i
Handled(i) == i < lineNo \/ pc \in {"scan", "exit"}

\* C15: every line writes at most one line to stdout and at most one error
\* line. The stdout line is there exactly when a response was received for the
\* line, and it is the status line of that response; once the loop is done with
\* the line, the error line is there exactly when a step of the line failed or
\* the status of its response was 400 or more. A line that failed before a
\* response was received has no stdout line, and a blank line writes nothing.
C15_OneStatusLineAndOneErrorLineAtMost ==
    \A i \in 1..lineNo :
        LET out == By(stdout, i)
            errs == By(PerLineErrors, i)
            resps == By(received, i)
            failed == By(failures, i)
        IN /\ Len(out) <= 1
           /\ Len(errs) <= 1
           /\ Len(resps) <= 1
           /\ Len(out) = Len(resps)
           /\ out # <<>> => out[1].text = StatusLine(resps[1].resp)
           /\ (\E k \in DOMAIN failed : failed[k].phase # "status") => out = <<>>
           /\ Handled(i) =>
                (errs # <<>> <=>
                    \/ \E k \in DOMAIN failed : failed[k].phase # "status"
                    \/ \E k \in DOMAIN resps : resps[k].resp.code >= 400)
           /\ Blank(read[i]) => out = <<>> /\ errs = <<>>

\* the first line got a 404, so it has a stdout line and an error line; the
\* second failed in transport, so it has an error line only
C15_Witness ==
    /\ pc = "exit"
    /\ lineNo = 2
    /\ Len(By(stdout, 1)) = 1
    /\ Len(By(PerLineErrors, 1)) = 1
    /\ received[1].resp.code = 404
    /\ By(stdout, 2) = <<>>
    /\ Len(By(PerLineErrors, 2)) = 1
    /\ By(wire, 2) # <<>>

----------------------------------------------------------------------------
(* C16: termination *)

\* every line read so far has been dealt with: a blank one skipped, any other
\* one passed to processLine, which has returned, its error logged if any
AllLinesProcessed ==
    \A i \in 1..lineNo :
        IF Blank(read[i])
        THEN i \notin Range(calls)
        ELSE /\ i \in Range(calls)
             /\ Outstanding(i) = 0
             /\ \/ By(failures, i) # <<>>
                \/ StepsOf(i) = FullOrder /\ Len(By(received, i)) = 1
             /\ Len(By(PerLineErrors, i)) = Len(By(failures, i))

\* C16: with a finite input and a client.Do that returns for every request,
\* the program terminates, and when it has terminated after reading, every
\* line it was given has been dealt with. When reading fails, the lines read
\* before the failure have all been processed before the read error is
\* written, the read error is the last thing written, the exit status is 1,
\* and nothing is read or processed afterwards.
C16_EveryLineIsConsumedAndTheRunEnds ==
    /\ <>(pc = "exit")
    /\ []((pc = "exit" /\ ~dryRunArg) => AllLinesProcessed)
    /\ [](scanErr # NoError =>
            /\ pc = "exit"
            /\ exitCode = 1
            /\ AllLinesProcessed
            /\ stderr[Len(stderr)] = Written(<<"Error reading stdin: ">> \o scanErr, 0))
    /\ [][pc # "exit"]_vars

\* reading failed after two lines, both of which had been sent and answered
C16_Witness ==
    /\ pc = "exit"
    /\ scanErr # NoError
    /\ lineNo = 2
    /\ Len(calls) = 2
    /\ Len(received) = 2
    /\ Len(stderr) >= 2

----------------------------------------------------------------------------
(* C17: a request that cannot be created *)

\* the configured method is not an HTTP token, or the URL does not parse
CannotBeCreated == requestMethod = "B D" \/ urlExpr = U_ESCAPE

\* C17: when the method is invalid or the URL text does not parse, every line
\* that gets as far as creating the request fails there, with the error
\* "creating request"; for such a line no header expression is evaluated and
\* no request is sent, and the failure is one of the line only: it is logged,
\* the exit status is not set by it and the loop goes on to the next line.
\* No line fails at request creation otherwise.
C17_RequestCreationFailsBeforeTheHeaders ==
    IF ~CannotBeCreated
    THEN \A k \in DOMAIN failures : failures[k].phase # "request"
    ELSE \A i \in 1..lineNo :
        LET done == StepsOf(i)
            failed == By(failures, i)
            atRequest == \E k \in DOMAIN done : done[k].step = "request"
            created == (i < lineNo \/ pc # "request") /\ atRequest
            creationFailed == \E k \in DOMAIN failed : failed[k].phase = "request"
        IN /\ created => creationFailed
           /\ creationFailed =>
                /\ atRequest
                /\ done[Len(done)].step = "request"
                /\ By(evaluated, i) = <<>>
                /\ By(wire, i) = <<>>
                /\ By(stdout, i) = <<>>
                /\ i = lineNo /\ pc = "returned" =>
                        err = <<"creating request: ", "invalid method or URL">>
                /\ Handled(i) =>
                        /\ Len(By(PerLineErrors, i)) = 1
                        /\ By(PerLineErrors, i)[1].text[2] = "creating request: "
                /\ exitCode = 1 => scanErr # NoError
                /\ pc = "exit" => ExitFromScan

\* with a header configured, the request of the first line could not be
\* created; the line after it was processed, and the program ended with
\* status 0, no header evaluated and nothing sent
C17_Witness ==
    /\ pc = "exit"
    /\ exitCode = 0
    /\ Len(headers) = 1
    /\ lineNo = 2
    /\ Len(failures) = 2
    /\ failures[1] = [by |-> 1, phase |-> "request"]
    /\ 2 \in Range(calls)
    /\ evaluated = <<>>
    /\ wire = <<>>

====
